---- MODULE Spec2Model ----
(***************************************************************************)
(* The logger library of cpp-app-template (ILogger, ConsoleLogger,         *)
(* createDefaultLogger), its composition root main(), and the clients the  *)
(* test suites are: owners of std::unique_ptr<ILogger> handles that        *)
(* create, log through and release console loggers.                        *)
(*                                                                         *)
(* Standard output is a sequence of characters.  A process is either the   *)
(* application (prog = "app"), a test client (prog = "test"), or, for the  *)
(* thread-safety obligation of ILogger.hpp, a client whose threads call    *)
(* log concurrently (prog = "mt").                                         *)
(***************************************************************************)
EXTENDS Integers, Sequences, FiniteSets, TLC

\* Bounds of the model.
MaxLen == 1      \* longest message a test client draws
MaxCalls == 2    \* log calls a test client issues
NSlots == 2      \* unique_ptr<ILogger> handles a client holds

NL == "\n"
Null == 0
Slots == 1..NSlots
Addr == 1..NSlots
Chars == {"x", "y", NL}

Range(s) == {s[i] : i \in 1..Len(s)}
BoundedSeq(S, n) == UNION {[1..k -> S] : k \in 0..n}

\* The messages a client passes to log.  "y" is drawn only as the
\* one-character message "y" of the two-logger scenario.
Messages == {m \in BoundedSeq(Chars, MaxLen) : "y" \in Range(m) => m = <<"y">>}

\* The three string literals of main().
Started == <<"A", "p", "p", "l", "i", "c", "a", "t", "i", "o", "n", " ", "s", "t", "a", "r", "t", "e", "d">>
Hello == <<"H", "e", "l", "l", "o", " ", "f", "r", "o", "m", " ", "c", "p", "p", "-", "a", "p", "p", "-", "t", "e", "m", "p", "l", "a", "t", "e", "!">>
Finished == <<"A", "p", "p", "l", "i", "c", "a", "t", "i", "o", "n", " ", "f", "i", "n", "i", "s", "h", "e", "d">>

VARIABLES
    prog,        \* which program the process runs: "app", "test" or "mt"
    pc,          \* main()'s position: the line it is about to execute
    exitStatus,  \* "running", "EXIT_SUCCESS" or "SIGABRT"
    owned,       \* owned[s]: the address held by unique_ptr s, or Null
    heap,        \* heap[a]: dynamic type of the object at a, or "free"
    out,         \* the characters written to standard output
    exc,         \* exception thrown by the last operation, or "none"
    last,        \* the last operation and the handle it was made on
    calls,       \* history: the messages passed to log, in call order
    loggedBy,    \* history: the handles log has been called through
    tpc,         \* tpc[t]: position of thread t inside ConsoleLogger::log
    tmsg         \* tmsg[t]: the message of thread t's current log call

vars == <<prog, pc, exitStatus, owned, heap, out, exc, last, calls, loggedBy, tpc, tmsg>>

----------------------------------------------------------------------------
\* std::ostream insertion, as ConsoleLogger::log uses it.

\* Faulty variants of the string_view inserter: prepending, losing the
\* last character, escaping line terminators.
Insert_Prepend(os, s) == s \o os
Insert_DropLast(os, s) == IF s = <<>> THEN os ELSE os \o SubSeq(s, 1, Len(s) - 1)
Insert_Escaped(os, s) == os \o [i \in 1..Len(s) |-> IF s[i] = NL THEN "x" ELSE s[i]]

\* operator<<(std::ostream&, std::string_view): the characters, unformatted
\* (std::cout's width stays 0: nothing in the repository sets it).
Insert(os, s) == os \o s

\* operator<<(std::ostream&, char)
Put(os, c) == Append(os, c)

\* Faulty variant: the terminator is left out.
ConsoleLogger_log_NoTerminator(os, message) == Insert(os, message)

\* ConsoleLogger::log: std::cout << message << '\n'
ConsoleLogger_log(os, message) == Put(Insert(os, message), NL)

----------------------------------------------------------------------------
\* The free store and the factory.

\* Faulty variant: the allocator hands out addresses still in use.
FreeAddrs_AnyAddr(h) == Addr

FreeAddrs(h) == {a \in Addr : h[a] = "free"}

\* Faulty variant: allocation failure yields an empty pointer instead of throwing.
createDefaultLogger_NoThrow(h) ==
    {[ptr |-> a, exc |-> "none", heap |-> [h EXCEPT ![a] = "ConsoleLogger"]] :
        a \in FreeAddrs(h)}
    \cup {[ptr |-> Null, exc |-> "none", heap |-> h]}

\* createDefaultLogger: std::make_unique<ConsoleLogger>().  operator new
\* either returns storage no live object occupies, in which the
\* ConsoleLogger is constructed, or throws std::bad_alloc.
createDefaultLogger(h) ==
    {[ptr |-> a, exc |-> "none", heap |-> [h EXCEPT ![a] = "ConsoleLogger"]] :
        a \in FreeAddrs(h)}
    \cup {[ptr |-> Null, exc |-> "bad_alloc", heap |-> h]}

\* Faulty variant: releasing one logger tears down every logger.
Delete_All(h, a) == [b \in Addr |-> "free"]

\* ~unique_ptr<ILogger>: virtual ~ILogger, then operator delete.
Delete(h, a) == [h EXCEPT ![a] = "free"]

----------------------------------------------------------------------------
\* main()

\* Faulty variant: the greeting is logged first.
MainMessage_Swapped(p) ==
    CASE p = "L17" -> Hello
      [] p = "L18" -> Started
      [] p = "L19" -> Finished

\* The argument of the log call at each line of main().
MainMessage(p) ==
    CASE p = "L17" -> Started
      [] p = "L18" -> Hello
      [] p = "L19" -> Finished

NextPc(p) ==
    CASE p = "L17" -> "L18"
      [] p = "L18" -> "L19"
      [] p = "L19" -> "L21"

\* Faulty variant: main catches the exception and reports success.
Uncaught_Swallowed(e) == [pc |-> "exited", exitStatus |-> "EXIT_SUCCESS"]

\* main has no handler: an exception leaving it calls std::terminate,
\* which aborts the process.
Uncaught(e) == [pc |-> "terminated", exitStatus |-> "SIGABRT"]

\* line 14: auto logger = createDefaultLogger();
MainCreate ==
    /\ prog = "app"
    /\ pc = "L14"
    /\ \E r \in createDefaultLogger(heap) :
          /\ heap' = r.heap
          /\ exc' = r.exc
          /\ IF r.exc = "none"
                THEN /\ owned' = [owned EXCEPT ![1] = r.ptr]
                     /\ pc' = "L17"
                     /\ exitStatus' = exitStatus
                ELSE /\ owned' = owned
                     /\ pc' = Uncaught(r.exc).pc
                     /\ exitStatus' = Uncaught(r.exc).exitStatus
    /\ last' = [op |-> "create", slot |-> 1]
    /\ UNCHANGED <<prog, out, calls, loggedBy, tpc, tmsg>>

\* lines 17-19: logger->log("...");
MainLog ==
    /\ prog = "app"
    /\ pc \in {"L17", "L18", "L19"}
    /\ owned[1] # Null
    /\ heap[owned[1]] = "ConsoleLogger"
    /\ out' = ConsoleLogger_log(out, MainMessage(pc))
    /\ calls' = Append(calls, MainMessage(pc))
    /\ loggedBy' = loggedBy \cup {1}
    /\ exc' = "none"
    /\ last' = [op |-> "log", slot |-> 1]
    /\ pc' = NextPc(pc)
    /\ UNCHANGED <<prog, exitStatus, owned, heap, tpc, tmsg>>

\* line 21: return EXIT_SUCCESS; the unique_ptr releases the logger.
MainReturn ==
    /\ prog = "app"
    /\ pc = "L21"
    /\ heap' = Delete(heap, owned[1])
    /\ owned' = [owned EXCEPT ![1] = Null]
    /\ exitStatus' = "EXIT_SUCCESS"
    /\ pc' = "exited"
    /\ exc' = "none"
    /\ last' = [op |-> "reset", slot |-> 1]
    /\ UNCHANGED <<prog, out, calls, loggedBy, tpc, tmsg>>

----------------------------------------------------------------------------
\* The test clients: each handle s is a std::unique_ptr<ILogger>.

\* logger_ = createDefaultLogger();  (an exception leaves the handle empty)
SetUp(s) ==
    /\ prog = "test"
    /\ owned[s] = Null
    /\ \E r \in createDefaultLogger(heap) :
          /\ heap' = r.heap
          /\ exc' = r.exc
          /\ owned' = [owned EXCEPT ![s] = r.ptr]
    /\ last' = [op |-> "create", slot |-> s]
    /\ UNCHANGED <<prog, pc, exitStatus, out, calls, loggedBy, tpc, tmsg>>

\* logger->log(m): the virtual call reaches ConsoleLogger::log.
LogCall(s, m) ==
    /\ prog = "test"
    /\ Len(calls) < MaxCalls
    /\ owned[s] # Null
    /\ heap[owned[s]] = "ConsoleLogger"
    /\ out' = ConsoleLogger_log(out, m)
    /\ calls' = Append(calls, m)
    /\ loggedBy' = loggedBy \cup {s}
    /\ exc' = "none"
    /\ last' = [op |-> "log", slot |-> s]
    /\ UNCHANGED <<prog, pc, exitStatus, owned, heap, tpc, tmsg>>

\* logger_.reset(), or the handle going out of scope.
TearDown(s) ==
    /\ prog = "test"
    /\ owned[s] # Null
    /\ heap' = Delete(heap, owned[s])
    /\ owned' = [owned EXCEPT ![s] = Null]
    /\ exc' = "none"
    /\ last' = [op |-> "reset", slot |-> s]
    /\ UNCHANGED <<prog, pc, exitStatus, out, calls, loggedBy, tpc, tmsg>>

----------------------------------------------------------------------------
\* Threads calling log concurrently, thread t through the logger of handle
\* t.  ConsoleLogger::log takes no lock, so its two insertions are two
\* steps; each insertion is atomic (std::cout is a synchronized standard
\* stream object).

\* std::cout << message
TInsertMessage(t, m) ==
    /\ prog = "mt"
    /\ tpc[t] = "idle"
    /\ Len(calls) < MaxCalls
    /\ owned[t] # Null
    /\ heap[owned[t]] = "ConsoleLogger"
    /\ out' = Insert(out, m)
    /\ tmsg' = [tmsg EXCEPT ![t] = m]
    /\ tpc' = [tpc EXCEPT ![t] = "message_written"]
    /\ calls' = Append(calls, m)
    /\ loggedBy' = loggedBy \cup {t}
    /\ UNCHANGED <<prog, pc, exitStatus, owned, heap, exc, last>>

\* ... << '\n'
TInsertNewline(t) ==
    /\ prog = "mt"
    /\ tpc[t] = "message_written"
    /\ out' = Put(out, NL)
    /\ tpc' = [tpc EXCEPT ![t] = "idle"]
    /\ last' = [op |-> "log", slot |-> t]
    /\ exc' = "none"
    /\ UNCHANGED <<prog, pc, exitStatus, owned, heap, calls, loggedBy, tmsg>>

----------------------------------------------------------------------------
Init ==
    /\ prog \in {"app", "test"}
    /\ pc = IF prog = "app" THEN "L14" ELSE "none"
    /\ exitStatus = "running"
    /\ owned = [s \in Slots |-> Null]
    /\ heap = [a \in Addr |-> "free"]
    /\ out = <<>>
    /\ exc = "none"
    /\ last = [op |-> "init", slot |-> 0]
    /\ calls = <<>>
    /\ loggedBy = {}
    /\ tpc = [t \in Slots |-> "idle"]
    /\ tmsg = [t \in Slots |-> <<>>]

Next ==
    \/ MainCreate
    \/ MainLog
    \/ MainReturn
    \/ \E s \in Slots : SetUp(s)
    \/ \E s \in Slots, m \in Messages : LogCall(s, m)
    \/ \E s \in Slots : TearDown(s)

Spec == Init /\ [][Next]_vars

\* Every thread holds its logger before the threads start.
InitMT ==
    /\ prog = "mt"
    /\ pc = "none"
    /\ exitStatus = "running"
    /\ owned = [s \in Slots |-> s]
    /\ heap = [a \in Addr |-> "ConsoleLogger"]
    /\ out = <<>>
    /\ exc = "none"
    /\ last = [op |-> "init", slot |-> 0]
    /\ calls = <<>>
    /\ loggedBy = {}
    /\ tpc = [t \in Slots |-> "idle"]
    /\ tmsg = [t \in Slots |-> <<>>]

NextMT ==
    \/ \E t \in Slots, m \in Messages : TInsertMessage(t, m)
    \/ \E t \in Slots : TInsertNewline(t)

SpecMT == InitMT /\ [][NextMT]_vars

----------------------------------------------------------------------------
\* What the output is expected to be, stated without the inserters.

Line(m) == m \o <<NL>>

RECURSIVE Flatten(_)
Flatten(ms) == IF ms = <<>> THEN <<>> ELSE Line(Head(ms)) \o Flatten(Tail(ms))

IsPrefix(s, t) == Len(s) <= Len(t) /\ SubSeq(t, 1, Len(s)) = s

EndsWith(s, t) == Len(t) <= Len(s) /\ SubSeq(s, Len(s) - Len(t) + 1, Len(s)) = t

CountNL(s) == Cardinality({i \in 1..Len(s) : s[i] = NL})

RECURSIVE EmbeddedNL(_)
EmbeddedNL(ms) == IF ms = <<>> THEN 0 ELSE CountNL(Head(ms)) + EmbeddedNL(Tail(ms))

FirstNL(s) ==
    IF \E i \in 1..Len(s) : s[i] = NL
        THEN CHOOSE i \in 1..Len(s) : s[i] = NL /\ \A j \in 1..(i - 1) : s[j] # NL
        ELSE 0

\* The lines of a text: the runs of characters that end at a line
\* terminator, and a last unterminated run if there is one.
RECURSIVE Lines(_)
Lines(s) ==
    IF s = <<>> THEN <<>>
    ELSE IF FirstNL(s) = 0 THEN <<s>>
    ELSE <<SubSeq(s, 1, FirstNL(s) - 1)>> \o Lines(SubSeq(s, FirstNL(s) + 1, Len(s)))

Held == {s \in Slots : owned[s] # Null}
Live == {a \in Addr : heap[a] = "ConsoleLogger"}
LastCall(cs) == cs[Len(cs)]

----------------------------------------------------------------------------
\* C1: every log call, whatever its message (empty, of the greatest length,
\* holding a line terminator), throws nothing and extends standard output
\* by exactly the message's characters followed by exactly one line
\* terminator.
C1_LogAppendsMessageAndTerminator ==
    [][Len(calls') = Len(calls) + 1 =>
          /\ exc' = "none"
          /\ Len(out') = Len(out) + Len(LastCall(calls')) + 1
          /\ SubSeq(out', 1, Len(out)) = out
          /\ SubSeq(out', Len(out) + 1, Len(out') - 1) = LastCall(calls')
          /\ out'[Len(out')] = NL]_vars

C1_Witness ==
    /\ prog = "test"
    /\ calls = <<<< >>, <<NL>>>>
    /\ out = <<NL, NL, NL>>
    /\ last.op = "log"

\* C2 as stated: logging m1..mk yields exactly k output lines, the i-th
\* being mi.
C2_ExactlyKLines == Lines(out) = calls

\* C2 as amended: logging m1..mk, none of which holds a line terminator,
\* yields exactly k output lines, the i-th being mi.
C2_KLinesWithoutEmbeddedTerminators ==
    (\A i \in 1..Len(calls) : NL \notin Range(calls[i])) => Lines(out) = calls

C2_Witness ==
    /\ calls = <<<<"x">>, <<"y">>>>
    /\ Lines(out) = <<<<"x">>, <<"y">>>>

\* C3: the application holds no logger until line 14 has run and exactly
\* one afterwards, logs only after that, has written exactly the lines
\* "Application started", "Hello from cpp-app-template!" and
\* "Application finished", in this order and each terminated, when it
\* returns, and returns EXIT_SUCCESS.
C3_MainScript ==
    prog = "app" =>
        /\ pc \in {"L14", "terminated"} => Live = {} /\ out = <<>>
        /\ pc \in {"L17", "L18", "L19", "L21"} =>
              /\ Cardinality(Live) = 1
              /\ owned[1] \in Live
        /\ pc = "L17" => out = <<>>
        /\ pc = "L18" => out = Started \o <<NL>>
        /\ pc = "L19" => out = Started \o <<NL>> \o Hello \o <<NL>>
        /\ pc \in {"L21", "exited"} =>
              out = Started \o <<NL>> \o Hello \o <<NL>> \o Finished \o <<NL>>
        /\ pc = "exited" <=> exitStatus = "EXIT_SUCCESS"
        /\ pc \notin {"exited", "terminated"} <=> exitStatus = "running"

C3_Witness ==
    /\ prog = "app"
    /\ pc = "exited"
    /\ exitStatus = "EXIT_SUCCESS"
    /\ Len(out) = Len(Started) + Len(Hello) + Len(Finished) + 3

\* C4: a createDefaultLogger call that returns leaves a non-null handle;
\* every held handle points to a live ConsoleLogger, so log can be called
\* on it; and n handles filled by n calls hold n live instances.
C4_NeverNull ==
    /\ (last.op = "create" /\ exc = "none") => owned[last.slot] # Null
    /\ \A s \in Held : owned[s] \in Live
    /\ Cardinality(Live) = Cardinality(Held)

C4_Witness ==
    /\ prog = "test"
    /\ Held = Slots
    /\ last.op = "create"
    /\ exc = "none"

\* C5: two handles that hold instances at the same time hold different
\* instances.
C5_DistinctInstances ==
    \A s, t \in Held : s # t => owned[s] # owned[t]

C5_Witness ==
    /\ Cardinality(Held) >= 2
    /\ last.op = "create"
    /\ loggedBy # {}

\* C6: the output is the logged messages, each terminated, in the order of
\* the calls, whichever instances the calls were made on; A.log("x") then
\* B.log("y") gives exactly the lines "x" and "y".
C6_GlobalCallOrder ==
    /\ out = Flatten(calls)
    /\ calls = <<<<"x">>, <<"y">>>> => out = <<"x", NL, "y", NL>>

C6_Witness ==
    /\ prog = "test"
    /\ Held = {1, 2}
    /\ loggedBy = {1, 2}
    /\ last = [op |-> "log", slot |-> 2]
    /\ calls = <<<<"x">>, <<"y">>>>

\* C7: when a thread's log call completes, the output ends with that
\* call's message followed by its line terminator: the message was not
\* separated from its terminator by another call's output.
C7_EachCallOneIntactLine ==
    [][\A t \in Slots :
          (tpc[t] = "message_written" /\ tpc'[t] = "idle") =>
              EndsWith(out', Line(tmsg[t]))]_vars

\* C8: a factory call either returns a live instance or throws and leaves
\* no instance; when it throws in the application, the process is
\* terminated without having logged and without EXIT_SUCCESS.
C8_ConstructionAllOrNothing ==
    /\ last.op = "create" =>
          \/ exc = "none" /\ owned[last.slot] \in Live
          \/ exc = "bad_alloc" /\ owned[last.slot] = Null
    /\ Cardinality(Live) = Cardinality(Held)
    /\ (prog = "app" /\ exc = "bad_alloc") =>
          /\ pc = "terminated"
          /\ exitStatus = "SIGABRT"
          /\ out = <<>>
          /\ calls = <<>>
    /\ pc = "terminated" => exc = "bad_alloc"

C8_Witness ==
    /\ prog = "app"
    /\ pc = "terminated"
    /\ exc = "bad_alloc"
    /\ exitStatus # "EXIT_SUCCESS"

C10_AppendOnlyVerbatim ==
    [][/\ IsPrefix(out, out')
       /\ out' # out => (last'.op = "log" /\ Len(calls') = Len(calls) + 1)
       /\ CountNL(out') = Len(calls') + EmbeddedNL(calls')]_vars

C10_Witness ==
    /\ calls = <<<<NL>>, <<"x">>>>
    /\ CountNL(out) = 3
    /\ last.op = "reset"

====
